---- MODULE Spec2Model ----
(***************************************************************************)
(* The jail-roster crawl-and-reconcile engine: run_hourly_scrape           *)
(* (src/scraper/main.py) driving the identity store                        *)
(* (src/scraper/database.py), the roster and detail scrapers               *)
(* (src/scraper/scraper.py) and the CSV sink (src/scraper/processor.py).   *)
(*                                                                         *)
(* One run is a sequence of steps, one per statement group of              *)
(* run_hourly_scrape; pc names the statement the run executes next.        *)
(* Runs follow each other (a scheduler starts the process again); the      *)
(* identity store, the output file and the wall clock persist between      *)
(* runs, everything else is local to a run.                                *)
(***************************************************************************)
EXTENDS Integers, Sequences, FiniteSets, TLC

\* ---------------------------------------------------------------- bounds

MaxRoster == 2
MaxRuns == 3
\* failures the environment injects over a whole behaviour (a store or
\* output-file operation raising, a page or detail view not loading, a bad
\* configuration, a browser that does not start)
MaxFaults == 1

\* characters in the text of one roster cell
MaxText == 2
\* charge elements the detail view of one inmate lists
MaxCharges == 6
\* whitespace-separated words in the last part of an address
MaxTokens == 3

\* ------------------------------------------------------ program constants
\* date_released is NULL until the inmate is released
NULL == 0
\* an identifier cell whose text is empty after strip()
BLANK == 0
\* load_processed_ids: max_retries = 2 (attempts while retry_count <= 2)
LoadMaxRetries == 2
\* scrape_main_roster: max_retries = 3 (attempts while retry_count < 3)
NavMaxRetries == 3
\* scrape_main_roster: asyncio.sleep(5) before the next attempt
NavRetryDelay == 5
\* scrape_inmate_details: max_retries = 2 (clicks while retry_count <= 2)
ClickMaxRetries == 2
\* scrape_inmate_details: the four entries of detail_selectors
PaneSelectors == 4
\* scrape_inmate_details: charge_elements[:5]
DetailChargeCap == 5
\* write_to_csv: if i < 3
CsvChargeCap == 3

\* sample identifiers (name_number values of roster rows)
Ids == {1, 2}

\* Points of a run at which datetime.now() is read: the mark_inmate_processed
\* call of roster row k (point k), update_last_seen (MaxRoster + 1) and
\* find_released_inmates (MaxRoster + 2)
TicksPerRun == MaxRoster + 2

\* datetime.now() at a point of run r: the wall clock moves on between any two
\* points, and between runs, whether or not it is read
now(r, point) == r * TicksPerRun + point

\* roster pages: the identifier cell of each table row, in page order
Pages == UNION {[1..n -> Ids \cup {BLANK}] : n \in 0..MaxRoster}

\* characters of a cell text: a blank and a non-blank one
Chars == {" ", "a"}

\* cell texts, as sequences of characters
Texts == UNION {[1..n -> Chars] : n \in 0..MaxText}

\* what row.locator("td:nth-child(9)").text_content() gives for one row: it
\* raises, returns None, or returns a text
Cells ==
    {[kind |-> "raises", text |-> <<>>], [kind |-> "none", text |-> <<>>]}
        \cup {[kind |-> "text", text |-> x] : x \in Texts}

\* roster tables, one identifier cell per row, with the text as the page has it
RawPages == UNION {[1..n -> Cells] : n \in 0..MaxRoster}

\* a value of a key of an inmate dict: the key is absent, or its value is
\* None, a str (its characters in text), a list (of n elements), an int (n),
\* another true value that is no str (kind "other"), or an object whose
\* truth value cannot be taken (bool() raises)
Val(k, x, m) == [kind |-> k, text |-> x, n |-> m]

Absent == Val("absent", <<>>, 0)

None == Val("None", <<>>, 0)

Str(x) == Val("str", x, 0)

Num(m) == Val("int", <<>>, m)

List(m) == Val("list", <<>>, m)

Other == Val("other", <<>>, 0)

Untestable == Val("untestable", <<>>, 0)

\* the keys of an inmate dict that structure_inmate_data reads or writes
DictKeys ==
    {"address", "dob", "street_address", "city", "state", "zip", "charges",
     "number_of_charges", "scrape_timestamp_utc"}

\* the dict without any of them
EmptyDict == [k \in DictKeys |-> Absent]

\* the names src/scraper/database.py defines
DatabaseDefs ==
    {"initialize_database", "is_inmate_processed", "mark_inmate_processed",
     "update_last_seen", "find_released_inmates"}

\* the database functions src/scraper/scraper.py defines
ScraperDefs ==
    {"setup_database", "load_processed_ids", "mark_as_processed",
     "mark_inmate_processed"}

\* the names main.py imports from the database module (main.py line 111)
ImportedNames ==
    {"initialize_database", "load_processed_ids", "mark_inmate_processed",
     "update_last_seen", "find_released_inmates"}

VARIABLES
    store,          \* processed_inmates table: name_number -> row
    csvNonEmpty,    \* the output file exists and its size is > 0
    csvAppended,    \* lines this run appended to it (0 = header, id = row)
    clock,          \* last value datetime.now() returned
    dbExports,      \* names the module bound to "database" provides
    pc,             \* the statement the run executes next
    runs,           \* runs started so far
    exitStatus,     \* exit status of the process of the last finished run
    processed_ids,  \* run_hourly_scrape: processed_ids
    retry_count,    \* load_processed_ids / scrape_main_roster: retry_count
    inmates,        \* run_hourly_scrape: inmates (name_number of each row)
    idx,            \* position of the for loop over inmates
    details,        \* result of the last scrape_inmate_details call
    new_inmate_records, \* run_hourly_scrape: new_inmate_records (by id)
    new_count,
    released_inmates,   \* result of find_released_inmates
    browser,        \* "none" | "open" | "closed"
    closeCalls,     \* close_browser calls in this run
    rosterOutcome,  \* how scrape_main_roster ended in this run
    abortCause,     \* why the run stopped early ("none" if it did not)
    storeErr,       \* a store operation failed in this run
    loadOk,         \* load_processed_ids read the table in this run
    storedAtStart,  \* identifiers stored when the run started
    activeAtStart,  \* of those, the ones with date_released NULL
    storeAtStart,   \* the table when the run started
    dbInitialized,  \* initialize_database was called in this run
    navAttempts,    \* page.goto calls of scrape_main_roster in this run
    navSlept,       \* seconds scrape_main_roster slept between attempts
    detailCalls,    \* identifiers passed to scrape_inmate_details, in order
    prevRun,        \* summary of the previous run
    faults,         \* failures injected so far
    r_page,         \* scrape_main_roster alone: the rows of the table
    r_idx,          \* scrape_main_roster alone: position of "for row in rows"
    r_inmates,      \* scrape_main_roster alone: inmates (name_number of each)
    d_pc,           \* scrape_inmate_details alone: the statement it is at
    d_retry,        \* its retry_count (clicks on the row)
    d_sel,          \* detail_selectors tried so far
    d_vals,         \* details: dob, address, city, state, zip
    d_missing,      \* missing_fields
    d_failed,       \* fields whose extraction failed
    d_fatal,        \* the stage that made the call give up ("none" if none)
    d_listed,       \* charge elements the detail view lists
    d_charges,      \* len(details["charges"])
    d_number,       \* number_of_charges
    d_cols,         \* chargeN_* column sets of the flattened record
    d_result,       \* what the call returned: "dict", "None", "raise"
    f_exists,       \* write_to_csv alone: output_path.exists()
    f_lines,        \* the lines of the file
    f_calls,        \* write_to_csv calls made
    f_before,       \* the lines of the file when the last call started
    f_batch,        \* the records of the last call
    f_ret,          \* what the last call returned
    n_detail_data,  \* structure_inmate_data alone: detail_data
    n_result,       \* structured_data, then what the call returned
    n_raised,       \* the call ended with an exception
    n_pc            \* "idle", "call" or "returned"

\* what only StartRun changes
runVars == <<dbExports, runs, storedAtStart, activeAtStart, storeAtStart, prevRun>>
\* the output file
fileVars == <<csvNonEmpty, csvAppended>>
\* the for loop of run_hourly_scrape
loopVars == <<idx, details, new_inmate_records, new_count, detailCalls>>
\* the browser session
browserVars == <<browser, closeCalls>>
\* the navigation loop of scrape_main_roster
navVars == <<navAttempts, navSlept>>
\* the row loop of scrape_main_roster, run on its own
rosterVars == <<r_page, r_idx, r_inmates>>
\* scrape_inmate_details and what is made of its result, run on their own
detailVars ==
    <<d_pc, d_retry, d_sel, d_vals, d_missing, d_failed, d_fatal, d_listed,
      d_charges, d_number, d_cols, d_result>>
\* write_to_csv and the file it appends to, run on their own
sinkVars == <<f_exists, f_lines, f_calls, f_before, f_batch, f_ret>>
\* structure_inmate_data, run on its own
structVars == <<n_detail_data, n_result, n_raised, n_pc>>
\* the functions run on their own
unitVars == <<rosterVars, detailVars, sinkVars, structVars>>

vars ==
    <<store, clock, pc, exitStatus, processed_ids, retry_count, inmates,
      released_inmates, rosterOutcome, abortCause, storeErr, loadOk, faults,
      dbInitialized, navVars, runVars, fileVars, loopVars, browserVars,
      unitVars>>

\* ------------------------------------------------------------- helpers
ToSet(s) == {s[i] : i \in 1..Len(s)}

Stored(s) == DOMAIN s

Active(s) == {i \in DOMAIN s : s[i].released = NULL}

\* ------------------------------------------------- database.py, on a table
\* variant: the INSERT is lost
mark_inmate_processed_lost(s, id, ts) == s

\* variant: INSERT OR REPLACE, the row of a stored identifier is written anew
mark_inmate_processed_replace(s, id, ts) ==
    [j \in DOMAIN s \cup {id} |->
        IF j = id THEN [first |-> ts, last |-> ts, released |-> NULL]
        ELSE s[j]]

\* mark_inmate_processed: INSERT OR IGNORE (name_number, ts, ts)
mark_inmate_processed(s, id, ts) ==
    IF id \in DOMAIN s
    THEN s
    ELSE [j \in DOMAIN s \cup {id} |->
            IF j = id THEN [first |-> ts, last |-> ts, released |-> NULL]
            ELSE s[j]]

\* update_last_seen: UPDATE ... SET last_seen_timestamp = ts WHERE name_number IN ids
update_last_seen(s, ids, ts) ==
    IF ids = {}
    THEN s
    ELSE [j \in DOMAIN s |->
            IF j \in ids THEN [s[j] EXCEPT !.last = ts] ELSE s[j]]

\* variant: the SELECT without "date_released IS NULL"
released_select_any(s, ids) == {j \in DOMAIN s : j \notin ids}

\* find_released_inmates: the SELECT (date_released IS NULL AND name_number NOT IN ids)
released_select(s, ids) ==
    {j \in DOMAIN s : s[j].released = NULL /\ j \notin ids}

\* variant: the selected rows are left as they are
find_released_inmates_noop(s, ids, ts) == s

\* variant: the selected rows are deleted instead of stamped
find_released_inmates_delete(s, ids, ts) ==
    [j \in DOMAIN s \ released_select(s, ids) |-> s[j]]

\* find_released_inmates: the UPDATE of the selected rows
find_released_inmates(s, ids, ts) ==
    [j \in DOMAIN s |->
        IF j \in released_select(s, ids)
        THEN [s[j] EXCEPT !.released = ts]
        ELSE s[j]]

\* scrape_main_roster: rows whose stripped name_number is empty are skipped
roster_rows(page) == SelectSeq(page, LAMBDA c : c # BLANK)

\* write_to_csv: the lines one call appends; file_exists is
\* output_path.exists() and output_path.stat().st_size > 0
csv_lines(file_exists, records) ==
    (IF ~file_exists THEN <<0>> ELSE <<>>) \o records

\* ---------------------------------------------------------------- Init
NoRun == [clean |-> FALSE, ids |-> {}]

\* a process that has not run yet
MainIdle ==
    /\ store = <<>>
    /\ csvNonEmpty = FALSE
    /\ csvAppended = <<>>
    /\ clock = 0
    /\ pc = "idle"
    /\ runs = 0
    /\ exitStatus = 0
    /\ processed_ids = {}
    /\ retry_count = 0
    /\ inmates = <<>>
    /\ idx = 1
    /\ details = "unset"
    /\ new_inmate_records = <<>>
    /\ new_count = 0
    /\ released_inmates = {}
    /\ browser = "none"
    /\ closeCalls = 0
    /\ rosterOutcome = "none"
    /\ abortCause = "none"
    /\ storeErr = FALSE
    /\ loadOk = FALSE
    /\ storedAtStart = {}
    /\ activeAtStart = {}
    /\ storeAtStart = <<>>
    /\ dbInitialized = FALSE
    /\ navAttempts = 0
    /\ navSlept = 0
    /\ detailCalls = <<>>
    /\ prevRun = NoRun
    /\ faults = 0

\* scrape_main_roster's row loop not in use
RosterIdle ==
    /\ r_page = <<>>
    /\ r_idx = 1
    /\ r_inmates = <<>>

\* scrape_inmate_details at its first statement
DetailIdle ==
    /\ d_pc = "row"
    /\ d_retry = 0
    /\ d_sel = 0
    /\ d_vals = [f \in {"dob", "address", "city", "state", "zip"} |-> "unset"]
    /\ d_missing = <<>>
    /\ d_failed = {}
    /\ d_fatal = "none"
    /\ d_listed = 0
    /\ d_charges = 0
    /\ d_number = 0
    /\ d_cols = 0
    /\ d_result = "running"

\* no write_to_csv call yet, no output file
SinkIdle ==
    /\ f_exists = FALSE
    /\ f_lines = <<>>
    /\ f_calls = 0
    /\ f_before = <<>>
    /\ f_batch = <<>>
    /\ f_ret = "none"

\* no structure_inmate_data call under way
StructIdle ==
    /\ n_detail_data = EmptyDict
    /\ n_result = EmptyDict
    /\ n_raised = FALSE
    /\ n_pc = "idle"

Init ==
    /\ MainIdle
    /\ dbExports \in {DatabaseDefs, DatabaseDefs \cup ScraperDefs}
    /\ RosterIdle
    /\ DetailIdle
    /\ SinkIdle
    /\ StructIdle

\* ------------------------------------------------------------- actions
name_numbers_on_roster == ToSet(inmates)

\* the environment makes the step fail, within the budget
Fault == faults < MaxFaults /\ faults' = faults + 1

\* what the run that just ended leaves for the next one to compare with: the
\* roster identifiers, when the roster was read, no store operation failed and
\* no exception cut the run short
RunSummary ==
    IF pc = "done" /\ rosterOutcome = "ok" /\ ~storeErr /\ abortCause # "exception"
    THEN [clean |-> TRUE, ids |-> ToSet(inmates)]
    ELSE NoRun

\* the scheduler starts the process: run_hourly_scrape begins, locals fresh
StartRun ==
    /\ pc \in {"idle", "done"}
    /\ runs < MaxRuns
    /\ runs' = runs + 1
    /\ pc' = "validate"
    /\ prevRun' = RunSummary
    /\ exitStatus' = 0
    /\ processed_ids' = {}
    /\ retry_count' = 0
    /\ inmates' = <<>>
    /\ idx' = 1
    /\ details' = "unset"
    /\ new_inmate_records' = <<>>
    /\ new_count' = 0
    /\ released_inmates' = {}
    /\ browser' = "none"
    /\ closeCalls' = 0
    /\ rosterOutcome' = "none"
    /\ abortCause' = "none"
    /\ storeErr' = FALSE
    /\ loadOk' = FALSE
    /\ storedAtStart' = Stored(store)
    /\ activeAtStart' = Active(store)
    /\ storeAtStart' = store
    /\ dbInitialized' = FALSE
    /\ navAttempts' = 0
    /\ navSlept' = 0
    /\ detailCalls' = <<>>
    /\ clock' = now(runs', 0)
    /\ csvAppended' = <<>>
    /\ UNCHANGED <<store, csvNonEmpty, dbExports, faults, unitVars>>

\* main.py 99-101: validate_config() returns True or raises ValueError
ValidateConfig ==
    /\ pc = "validate"
    /\ \/ pc' = "import" /\ UNCHANGED <<abortCause, faults>>
       \/ Fault /\ pc' = "fatal" /\ abortCause' = "config"
    /\ UNCHANGED <<store, clock, exitStatus, processed_ids, retry_count,
                   inmates, released_inmates, rosterOutcome, storeErr, loadOk,
                   dbInitialized, navVars, unitVars, runVars, fileVars,
                   loopVars, browserVars>>

\* main.py 111: from database import ...; ImportError when a name is missing
import_resolves(exports) == ImportedNames \subseteq exports

ImportDatabase ==
    /\ pc = "import"
    /\ IF import_resolves(dbExports)
       THEN pc' = "initdb" /\ UNCHANGED abortCause
       ELSE pc' = "fatal" /\ abortCause' = "import"
    /\ UNCHANGED <<store, clock, exitStatus, processed_ids, retry_count,
                   inmates, released_inmates, rosterOutcome, storeErr, loadOk,
                   faults, dbInitialized, navVars, unitVars, runVars,
                   fileVars, loopVars, browserVars>>

\* main.py 112: initialize_database() creates the table if it is missing and
\* swallows every error; no row changes
InitializeDatabase ==
    /\ pc = "initdb"
    /\ pc' = "load"
    /\ dbInitialized' = TRUE
    /\ UNCHANGED <<store, clock, exitStatus, processed_ids, retry_count,
                   inmates, released_inmates, rosterOutcome, abortCause,
                   storeErr, loadOk, faults, navVars, unitVars, runVars,
                   fileVars, loopVars, browserVars>>

\* variant: SELECT ... WHERE date_released IS NULL
loaded_ids_active(s) == Active(s)

\* load_processed_ids: SELECT name_number FROM processed_inmates (every row,
\* released or not)
loaded_ids(s) == Stored(s)

\* variant: a failed read answers with the identifiers read before
load_on_error_stale(s) == Stored(s)

\* scraper.py 86, 89: return set() when the read failed: the empty set,
\* whatever the table holds
load_on_error(s) == {}

\* main.py 115: one attempt of load_processed_ids' while loop: the SELECT
\* succeeds, raises sqlite3.OperationalError (retried while retry_count <=
\* max_retries) or raises another exception (set() at once)
LoadProcessedIds ==
    /\ pc = "load"
    /\ retry_count <= LoadMaxRetries
    /\ \/ /\ processed_ids' = loaded_ids(store)
          /\ loadOk' = TRUE
          /\ pc' = "browser"
          /\ retry_count' = 0
          /\ UNCHANGED <<storeErr, faults>>
       \/ /\ faults < MaxFaults
          /\ retry_count + 1 <= LoadMaxRetries
          /\ retry_count' = retry_count + 1
          /\ UNCHANGED <<processed_ids, loadOk, pc, storeErr, faults>>
       \/ /\ Fault
          /\ \E operational \in BOOLEAN :
                operational => retry_count + 1 > LoadMaxRetries
          /\ processed_ids' = load_on_error(store)
          /\ storeErr' = TRUE
          /\ pc' = "browser"
          /\ retry_count' = 0
          /\ UNCHANGED loadOk
    /\ UNCHANGED <<store, clock, exitStatus, inmates, released_inmates,
                   rosterOutcome, abortCause, dbInitialized, navVars,
                   unitVars, runVars, fileVars, loopVars, browserVars>>

\* main.py 120: initialize_browser() has no handler of its own; a launch
\* failure reaches the except of run_hourly_scrape
InitializeBrowser ==
    /\ pc = "browser"
    /\ \/ /\ browser' = "open"
          /\ pc' = "nav"
          /\ UNCHANGED <<abortCause, faults>>
       \/ /\ Fault
          /\ pc' = "fatal"
          /\ abortCause' = "browser"
          /\ UNCHANGED browser
    /\ UNCHANGED <<store, clock, exitStatus, processed_ids, retry_count,
                   inmates, released_inmates, rosterOutcome, storeErr, loadOk,
                   dbInitialized, navVars, unitVars, runVars, fileVars,
                   loopVars, closeCalls>>

\* variant: the give-up test is off by one
nav_gives_up_late(count) == count > NavMaxRetries

\* scraper.py 165: if retry_count >= max_retries (after the increment)
nav_gives_up(count) == count >= NavMaxRetries

\* scraper.py 144-170: one turn of the while loop of scrape_main_roster: a
\* page.goto attempt that returns (break) or times out; a timeout increments
\* retry_count and then either is re-raised (and ends in the function's
\* except: return []) or is followed by asyncio.sleep(5) and the loop test
Navigate ==
    /\ pc = "nav"
    /\ retry_count < NavMaxRetries
    /\ navAttempts' = navAttempts + 1
    /\ \/ /\ pc' = "table"
          /\ UNCHANGED <<retry_count, rosterOutcome, faults, navSlept>>
       \/ /\ faults < MaxFaults
          /\ retry_count' = retry_count + 1
          /\ IF nav_gives_up(retry_count')
             THEN /\ faults' = faults + 1
                  /\ rosterOutcome' = "nav_timeout"
                  /\ pc' = "check"
                  /\ UNCHANGED navSlept
             ELSE /\ navSlept' = navSlept + NavRetryDelay
                  /\ pc' = IF retry_count' < NavMaxRetries THEN "nav" ELSE "table"
                  /\ UNCHANGED <<rosterOutcome, faults>>
    /\ UNCHANGED <<store, clock, exitStatus, processed_ids, inmates,
                   released_inmates, abortCause, storeErr, loadOk,
                   dbInitialized, unitVars, runVars, fileVars, loopVars,
                   browserVars>>

\* scraper.py 172-253: wait for the table (primary, then alternative
\* selector), read the rows; every exception ends in return []
ExtractRoster ==
    /\ pc = "table"
    /\ \/ /\ \E page \in Pages : inmates' = roster_rows(page)
          /\ rosterOutcome' = "ok"
          /\ UNCHANGED faults
       \/ /\ Fault
          /\ inmates' = <<>>
          /\ rosterOutcome' = "list_not_found"
    /\ pc' = "check"
    /\ UNCHANGED <<store, clock, exitStatus, processed_ids, retry_count,
                   released_inmates, abortCause, storeErr, loadOk,
                   dbInitialized, navVars, unitVars, runVars, fileVars,
                   loopVars, browserVars>>

\* variant: the run goes on whatever scrape_main_roster returned
early_return_never(list) == FALSE

\* main.py 127: if not inmates
early_return(list) == list = <<>>

\* main.py 127-134: if not inmates: return (through the finally)
CheckRoster ==
    /\ pc = "check"
    /\ IF early_return(inmates)
       THEN pc' = "close" /\ abortCause' = "no_inmates"
       ELSE pc' = "loop" /\ UNCHANGED abortCause
    /\ UNCHANGED <<store, clock, exitStatus, processed_ids, retry_count,
                   inmates, released_inmates, rosterOutcome, storeErr, loadOk,
                   faults, dbInitialized, navVars, unitVars, runVars,
                   fileVars, loopVars, browserVars>>

\* main.py 141: the membership test that classifies a row as new
is_new(name_number, loaded) == name_number \notin loaded

\* main.py 137-146: next row of the for loop; a new identifier goes to
\* scrape_inmate_details, which returns a dict or None
ProcessInmate ==
    /\ pc = "loop"
    /\ idx <= Len(inmates)
    /\ IF is_new(inmates[idx], processed_ids)
       THEN /\ new_count' = new_count + 1
            /\ detailCalls' = Append(detailCalls, inmates[idx])
            /\ \/ details' = "dict" /\ UNCHANGED faults
               \/ Fault /\ details' = "None"
            /\ pc' = "mark"
            /\ UNCHANGED idx
       ELSE /\ idx' = idx + 1
            /\ UNCHANGED <<new_count, detailCalls, details, pc, faults>>
    /\ UNCHANGED <<store, clock, exitStatus, processed_ids, retry_count,
                   inmates, released_inmates, rosterOutcome, abortCause,
                   storeErr, loadOk, new_inmate_records, dbInitialized,
                   navVars, unitVars, runVars, fileVars, browserVars>>

\* variant: a record is added whatever scrape_inmate_details returned
batch_after_always(batch, result, name_number) == Append(batch, name_number)

\* main.py 148-157: only a dict adds a record to new_inmate_records
batch_after(batch, result, name_number) ==
    IF result = "dict" THEN Append(batch, name_number) ELSE batch

\* main.py 148-164: a dict is structured and appended to new_inmate_records;
\* in both branches mark_inmate_processed(name_number) runs, reading
\* datetime.now() and inserting, or failing and returning False
MarkProcessed ==
    /\ pc = "mark"
    /\ new_inmate_records' = batch_after(new_inmate_records, details, inmates[idx])
    /\ clock' = now(runs, idx)
    /\ \/ /\ store' = mark_inmate_processed(store, inmates[idx], clock')
          /\ UNCHANGED <<storeErr, faults>>
       \/ /\ Fault
          /\ storeErr' = TRUE
          /\ UNCHANGED store
    /\ idx' = idx + 1
    /\ pc' = "loop"
    /\ UNCHANGED <<exitStatus, processed_ids, retry_count, inmates,
                   released_inmates, rosterOutcome, abortCause, loadOk,
                   details, new_count, detailCalls, dbInitialized, navVars,
                   unitVars, runVars, fileVars, browserVars>>

\* main.py 166-178: after the loop, write_to_csv(new_inmate_records) when the
\* list is not empty; processor.py 176-193: header only to an empty file, all
\* rows on success, and on an exception whatever was written before it
WriteCsv ==
    /\ pc = "loop"
    /\ idx > Len(inmates)
    /\ IF new_inmate_records = <<>>
       THEN UNCHANGED <<csvNonEmpty, csvAppended, faults>>
       ELSE \/ /\ csvAppended' = csv_lines(csvNonEmpty, new_inmate_records)
               /\ csvNonEmpty' = TRUE
               /\ UNCHANGED faults
            \/ /\ Fault
               /\ \E n \in 0..(Len(csv_lines(csvNonEmpty, new_inmate_records)) - 1) :
                     /\ csvAppended' =
                           SubSeq(csv_lines(csvNonEmpty, new_inmate_records), 1, n)
                     /\ csvNonEmpty' = (csvNonEmpty \/ n > 0)
    /\ pc' = "update"
    /\ UNCHANGED <<store, clock, exitStatus, processed_ids, retry_count,
                   inmates, released_inmates, rosterOutcome, abortCause,
                   storeErr, loadOk, dbInitialized, navVars, unitVars,
                   runVars, loopVars, browserVars>>

\* main.py 181: update_last_seen(name_numbers_on_roster)
UpdateLastSeen ==
    /\ pc = "update"
    /\ clock' = now(runs, MaxRoster + 1)
    /\ \/ /\ store' = update_last_seen(store, name_numbers_on_roster, clock')
          /\ UNCHANGED <<storeErr, faults>>
       \/ /\ Fault
          /\ storeErr' = TRUE
          /\ UNCHANGED store
    /\ pc' = "release"
    /\ UNCHANGED <<exitStatus, processed_ids, retry_count, inmates,
                   released_inmates, rosterOutcome, abortCause, loadOk,
                   dbInitialized, navVars, unitVars, runVars, fileVars,
                   loopVars, browserVars>>

\* main.py 185-188: find_released_inmates(name_numbers_on_roster)
FindReleased ==
    /\ pc = "release"
    /\ clock' = now(runs, MaxRoster + 2)
    /\ \/ /\ released_inmates' = released_select(store, name_numbers_on_roster)
          /\ store' = find_released_inmates(store, name_numbers_on_roster, clock')
          /\ UNCHANGED <<storeErr, faults>>
       \/ /\ Fault
          /\ released_inmates' = {}
          /\ storeErr' = TRUE
          /\ UNCHANGED store
    /\ pc' = "close"
    /\ UNCHANGED <<exitStatus, processed_ids, retry_count, inmates,
                   rosterOutcome, abortCause, loadOk, dbInitialized, navVars,
                   unitVars, runVars, fileVars, loopVars, browserVars>>

\* the status the process ends with: run_hourly_scrape returning (also by the
\* early return of line 129) leaves asyncio.run to end normally
status_on_return == 0

\* main.py 226: sys.exit(1) in the except of run_hourly_scrape
status_on_exception == 1

\* variant: no finally clause, the exception goes straight to the handler
on_exception_no_finally == "fatal"

\* main.py 122, 209-211: an exception inside the inner try runs the finally
\* clause first
on_exception_in_try == "close"

\* main.py 122-208: an exception that no handler of the callee catches leaves
\* the inner try while scrape_main_roster (125), scrape_inmate_details (146),
\* write_to_csv (171), update_last_seen (181) or find_released_inmates (185)
\* is under way
RaiseInTry ==
    /\ pc \in {"table", "loop", "update", "release"}
    /\ Fault
    /\ abortCause' = "exception"
    /\ pc' = on_exception_in_try
    /\ UNCHANGED <<store, clock, exitStatus, processed_ids, retry_count,
                   inmates, released_inmates, rosterOutcome, storeErr, loadOk,
                   dbInitialized, navVars, unitVars, runVars, fileVars,
                   loopVars, browserVars>>

\* main.py 209-215: finally: close_browser (which catches what closing
\* raises); then the function returns, or the exception that led here goes on
\* to the handler of run_hourly_scrape
CloseBrowser ==
    /\ pc = "close"
    /\ browser' = "closed"
    /\ closeCalls' = closeCalls + 1
    /\ IF abortCause = "exception"
       THEN pc' = "fatal" /\ UNCHANGED exitStatus
       ELSE pc' = "done" /\ exitStatus' = status_on_return
    /\ UNCHANGED <<store, clock, processed_ids, retry_count, inmates,
                   released_inmates, rosterOutcome, abortCause, storeErr,
                   loadOk, faults, dbInitialized, navVars, unitVars, runVars,
                   fileVars, loopVars>>

\* variant: the handler logs and returns instead of calling sys.exit(1)
FatalExit_returns ==
    /\ pc = "fatal"
    /\ exitStatus' = status_on_return
    /\ pc' = "done"
    /\ UNCHANGED <<store, clock, processed_ids, retry_count, inmates,
                   released_inmates, rosterOutcome, abortCause, storeErr,
                   loadOk, faults, dbInitialized, navVars, unitVars, runVars,
                   fileVars, loopVars, browserVars>>

\* main.py 217-226: except Exception: log, alert, sys.exit(1)
FatalExit ==
    /\ pc = "fatal"
    /\ exitStatus' = status_on_exception
    /\ pc' = "done"
    /\ UNCHANGED <<store, clock, processed_ids, retry_count, inmates,
                   released_inmates, rosterOutcome, abortCause, storeErr,
                   loadOk, faults, dbInitialized, navVars, unitVars, runVars,
                   fileVars, loopVars, browserVars>>

Next ==
    \/ StartRun
    \/ ValidateConfig
    \/ ImportDatabase
    \/ InitializeDatabase
    \/ LoadProcessedIds
    \/ InitializeBrowser
    \/ Navigate
    \/ ExtractRoster
    \/ CheckRoster
    \/ ProcessInmate
    \/ MarkProcessed
    \/ WriteCsv
    \/ UpdateLastSeen
    \/ FindReleased
    \/ RaiseInTry
    \/ CloseBrowser
    \/ FatalExit

Spec == Init /\ [][Next]_vars

\* ------------------------------------------- scrape_main_roster's row loop
\* every variable of a run, left alone by the functions run on their own
mainVars ==
    <<store, clock, pc, exitStatus, processed_ids, retry_count, inmates,
      released_inmates, rosterOutcome, abortCause, storeErr, loadOk, faults,
      dbInitialized, navVars, runVars, fileVars, loopVars, browserVars>>

\* str.lstrip() on a text of blanks and non-blanks
RECURSIVE lstrip(_)
lstrip(s) ==
    IF s = <<>> THEN s
    ELSE IF Head(s) = " " THEN lstrip(Tail(s)) ELSE s

\* str.rstrip()
RECURSIVE rstrip(_)
rstrip(s) ==
    IF s = <<>> THEN s
    ELSE IF s[Len(s)] = " " THEN rstrip(SubSeq(s, 1, Len(s) - 1)) ELSE s

\* scraper.py 230: inmate_data[key].strip()
strip(s) == rstrip(lstrip(s))

\* scraper.py 220: text_content() or ""
text_or_empty(cell) == IF cell.kind = "none" THEN <<>> ELSE cell.text

\* variant: the row is added whatever its name_number
row_step_keeps_blank(list, cell) ==
    IF cell.kind = "raises" THEN list
    ELSE Append(list, strip(text_or_empty(cell)))

\* scraper.py 205-240: one row of the loop: a cell that cannot be read skips
\* the row (except: continue); the text is stripped and the row is added only
\* if inmate_data["name_number"] is not empty
row_step(list, cell) ==
    IF cell.kind = "raises" THEN list
    ELSE IF strip(text_or_empty(cell)) # <<>>
         THEN Append(list, strip(text_or_empty(cell)))
         ELSE list

RosterInit ==
    /\ MainIdle
    /\ dbExports = DatabaseDefs
    /\ DetailIdle
    /\ SinkIdle
    /\ StructIdle
    /\ r_page \in RawPages
    /\ r_idx = 1
    /\ r_inmates = <<>>

\* scraper.py 205-240: the body of "for row in rows" for the next row
RosterRow ==
    /\ r_idx <= Len(r_page)
    /\ r_inmates' = row_step(r_inmates, r_page[r_idx])
    /\ r_idx' = r_idx + 1
    /\ UNCHANGED <<r_page, mainVars, structVars, detailVars, sinkVars>>

\* scraper.py 242-243: return inmates; the next call starts with inmates = []
RosterReturn ==
    /\ r_idx > Len(r_page)
    /\ r_idx' = 1
    /\ r_inmates' = <<>>
    /\ UNCHANGED <<r_page, mainVars, structVars, detailVars, sinkVars>>

RosterNext == RosterRow \/ RosterReturn

RosterSpec == RosterInit /\ [][RosterNext]_vars

\* ------------------------------------------------- scrape_inmate_details
\* what a lookup on the page can do: give a text, give no text, raise
Lookups == {"text", "no_text", "raises"}

Min(a, b) == IF a <= b THEN a ELSE b

\* variant: the helper lets the exception through
extract_text_or_empty_raising(lookup) ==
    IF lookup = "text" THEN "v" ELSE IF lookup = "raises" THEN "raise" ELSE ""

\* scraper.py 493-501: extract_text_or_empty: the stripped text, or "" when
\* there is none or when anything raises (except Exception: return "")
extract_text_or_empty(lookup) == IF lookup = "text" THEN "v" ELSE ""

\* scraper.py 367-377: try: details[f] = await extract_text_or_empty(...)
\* except Exception: missing_fields.append(f); details[f] = ""
field_value(got) == IF got = "raise" THEN "" ELSE got

field_missing(missing, f, got) ==
    IF got = "raise" THEN Append(missing, f) ELSE missing

\* scraper.py 315-331: the alternative click failed: a link that is falsy takes
\* a screenshot inside the try and returns None; an exception there, or from
\* the lookup or the click, reaches the except, which takes a screenshot and
\* returns None; an exception of that one leaves for the outer handler
alt_click_failure(falsy, shot1_ok, shot2_ok) ==
    IF falsy /\ shot1_ok THEN "None"
    ELSE IF shot2_ok THEN "None" ELSE "outer"

\* scraper.py 352-357 and 476-481: a screenshot, then return None; an
\* exception of the screenshot leaves for the outer handler
shot_then_none(shot_ok) == IF shot_ok THEN "None" ELSE "outer"

\* variant: the outer handler takes its screenshot without a guard
outer_handler_unguarded(shot_ok) == IF shot_ok THEN "None" ELSE "raise"

\* scraper.py 483-491: except Exception: try: screenshot except: pass;
\* return None
outer_handler(shot_ok) == "None"

\* where a failed stage leaves the call: returned with None, or in the outer
\* handler
D_GiveUp(stage, outcome) ==
    /\ d_fatal' = stage
    /\ IF outcome = "None"
       THEN d_result' = "None" /\ d_pc' = "returned"
       ELSE d_pc' = "handler" /\ UNCHANGED d_result

DetailInit ==
    /\ MainIdle
    /\ dbExports = DatabaseDefs
    /\ RosterIdle
    /\ DetailIdle
    /\ SinkIdle
    /\ StructIdle

\* scraper.py 272-288: find the row of name_number in the table
D_FindRow ==
    /\ d_pc = "row"
    /\ \/ d_pc' = "click" /\ UNCHANGED <<d_fatal, d_result>>
       \/ /\ d_fatal' = "row_not_found"
          /\ d_result' = "None"
          /\ d_pc' = "returned"
       \/ /\ d_fatal' = "row_lookup"
          /\ d_pc' = "handler"
          /\ UNCHANGED d_result
    /\ UNCHANGED <<d_retry, d_sel, d_vals, d_missing, d_failed, d_listed,
                   d_charges, d_number, d_cols, mainVars, structVars,
                   rosterVars, sinkVars>>

\* variant: the loop test lets one more turn through
click_loop_continues_late(count) == count <= ClickMaxRetries + 1

\* scraper.py 298: while retry_count <= max_retries (and not click_success)
click_loop_continues(count) == count <= ClickMaxRetries

\* scraper.py 298-310: one turn of "while retry_count <= max_retries and not
\* click_success": the click on the row works or raises
D_Click ==
    /\ d_pc = "click"
    /\ click_loop_continues(d_retry)
    /\ \/ d_pc' = "pane" /\ UNCHANGED d_retry
       \/ /\ d_retry' = d_retry + 1
          /\ d_pc' = IF click_loop_continues(d_retry') THEN "click" ELSE "altclick"
    /\ UNCHANGED <<d_sel, d_vals, d_missing, d_failed, d_fatal, d_listed,
                   d_charges, d_number, d_cols, d_result, mainVars,
                   structVars, rosterVars, sinkVars>>

\* scraper.py 311-331: the click on a link or button inside the row
D_AltClick ==
    /\ d_pc = "altclick"
    /\ \/ d_pc' = "pane" /\ UNCHANGED <<d_fatal, d_result>>
       \/ \E falsy, shot1_ok, shot2_ok \in BOOLEAN :
             D_GiveUp("clicks", alt_click_failure(falsy, shot1_ok, shot2_ok))
    /\ UNCHANGED <<d_retry, d_sel, d_vals, d_missing, d_failed, d_listed,
                   d_charges, d_number, d_cols, mainVars, structVars,
                   rosterVars, sinkVars>>

\* scraper.py 342-357: wait_for_selector on the next entry of
\* detail_selectors; with none found, a screenshot and return None
D_WaitPane ==
    /\ d_pc = "pane"
    /\ d_sel < PaneSelectors
    /\ d_sel' = d_sel + 1
    /\ \/ d_pc' = "dob" /\ UNCHANGED <<d_fatal, d_result>>
       \/ IF d_sel' < PaneSelectors
          THEN UNCHANGED <<d_pc, d_fatal, d_result>>
          ELSE \E shot_ok \in BOOLEAN : D_GiveUp("pane", shot_then_none(shot_ok))
    /\ UNCHANGED <<d_retry, d_vals, d_missing, d_failed, d_listed, d_charges,
                   d_number, d_cols, mainVars, structVars, rosterVars,
                   sinkVars>>

\* scraper.py 367-371: dob
D_Dob ==
    /\ d_pc = "dob"
    /\ \E lookup \in Lookups :
          /\ d_vals' = [d_vals EXCEPT
                          !["dob"] = field_value(extract_text_or_empty(lookup))]
          /\ d_missing' = field_missing(d_missing, "dob", extract_text_or_empty(lookup))
          /\ d_failed' = IF lookup = "raises" THEN d_failed \cup {"dob"} ELSE d_failed
    /\ d_pc' = "address"
    /\ UNCHANGED <<d_retry, d_sel, d_fatal, d_listed, d_charges, d_number,
                   d_cols, d_result, mainVars, structVars, rosterVars,
                   sinkVars>>

\* scraper.py 373-377: address
D_Address ==
    /\ d_pc = "address"
    /\ \E lookup \in Lookups :
          /\ d_vals' = [d_vals EXCEPT
                          !["address"] = field_value(extract_text_or_empty(lookup))]
          /\ d_missing' = field_missing(d_missing, "address", extract_text_or_empty(lookup))
          /\ d_failed' = IF lookup = "raises" THEN d_failed \cup {"address"} ELSE d_failed
    /\ d_pc' = "location"
    /\ UNCHANGED <<d_retry, d_sel, d_fatal, d_listed, d_charges, d_number,
                   d_cols, d_result, mainVars, structVars, rosterVars,
                   sinkVars>>

\* scraper.py 379-409: the combined location text ("City, State Zip" or a
\* city alone), else the three separate fields; "location" is missing when
\* those three are all empty
D_Location ==
    /\ d_pc = "location"
    /\ \/ \E with_state_zip \in BOOLEAN :
             /\ extract_text_or_empty("text") # ""
             /\ d_vals' = [d_vals EXCEPT
                             !["city"] = "v",
                             !["state"] = IF with_state_zip THEN "v" ELSE "",
                             !["zip"] = IF with_state_zip THEN "v" ELSE ""]
             /\ UNCHANGED <<d_missing, d_failed>>
       \/ \E combined \in Lookups \ {"text"}, c, s, z \in Lookups :
             /\ extract_text_or_empty(combined) = ""
             /\ d_vals' = [d_vals EXCEPT
                             !["city"] = extract_text_or_empty(c),
                             !["state"] = extract_text_or_empty(s),
                             !["zip"] = extract_text_or_empty(z)]
             /\ d_missing' =
                   IF {extract_text_or_empty(c), extract_text_or_empty(s),
                       extract_text_or_empty(z)} = {""}
                   THEN Append(d_missing, "location") ELSE d_missing
             /\ d_failed' =
                   IF {combined, c, s, z} = {"raises"}
                   THEN d_failed \cup {"location"} ELSE d_failed
    /\ d_pc' = "charges"
    /\ UNCHANGED <<d_retry, d_sel, d_fatal, d_listed, d_charges, d_number,
                   d_cols, d_result, mainVars, structVars, rosterVars,
                   sinkVars>>

\* scraper.py 411-464: the charge elements of the first selector that has
\* any; at most DetailChargeCap of them are read; "charges" is missing when no
\* selector has any (also when every lookup raises);
\* number_of_charges = len(charges)
D_Charges ==
    /\ d_pc = "charges"
    /\ \E n \in 0..MaxCharges, lookups_ok \in BOOLEAN :
          /\ d_listed' = n
          /\ d_charges' = IF lookups_ok THEN Min(n, DetailChargeCap) ELSE 0
          /\ d_missing' = IF lookups_ok /\ n > 0
                          THEN d_missing ELSE Append(d_missing, "charges")
          /\ d_failed' = IF lookups_ok THEN d_failed ELSE d_failed \cup {"charges"}
    /\ d_number' = d_charges'
    /\ d_pc' = "finish"
    /\ UNCHANGED <<d_retry, d_sel, d_vals, d_fatal, d_cols, d_result,
                   mainVars, structVars, rosterVars, sinkVars>>

\* scraper.py 466-481: return details; an exception in the block that no
\* inner try caught takes a screenshot and returns None
D_Finish ==
    /\ d_pc = "finish"
    /\ \/ /\ d_result' = "dict"
          /\ d_pc' = "returned"
          /\ UNCHANGED d_fatal
       \/ \E shot_ok \in BOOLEAN : D_GiveUp("extraction", shot_then_none(shot_ok))
    /\ UNCHANGED <<d_retry, d_sel, d_vals, d_missing, d_failed, d_listed,
                   d_charges, d_number, d_cols, mainVars, structVars,
                   rosterVars, sinkVars>>

\* scraper.py 483-491: the outer except
D_Handler ==
    /\ d_pc = "handler"
    /\ \E shot_ok \in BOOLEAN : d_result' = outer_handler(shot_ok)
    /\ d_pc' = "returned"
    /\ UNCHANGED <<d_retry, d_sel, d_vals, d_missing, d_failed, d_fatal,
                   d_listed, d_charges, d_number, d_cols, mainVars,
                   structVars, rosterVars, sinkVars>>

\* processor.py 66-70: structure_inmate_data: number_of_charges =
\* len(charges) (main.py 153, on the dict scrape_inmate_details returned)
D_Structure ==
    /\ d_pc = "returned"
    /\ d_result = "dict"
    /\ d_number' = d_charges
    /\ d_pc' = "structured"
    /\ UNCHANGED <<d_retry, d_sel, d_vals, d_missing, d_failed, d_fatal,
                   d_listed, d_charges, d_cols, d_result, mainVars,
                   structVars, rosterVars, sinkVars>>

\* processor.py 146-165: write_to_csv flattens the record: chargeN_* columns
\* for the charges with i < CsvChargeCap
D_Flatten ==
    /\ d_pc = "structured"
    /\ d_cols' = Min(d_charges, CsvChargeCap)
    /\ d_pc' = "flattened"
    /\ UNCHANGED <<d_retry, d_sel, d_vals, d_missing, d_failed, d_fatal,
                   d_listed, d_charges, d_number, d_result, mainVars,
                   structVars, rosterVars, sinkVars>>

DetailNext ==
    \/ D_FindRow
    \/ D_Click
    \/ D_AltClick
    \/ D_WaitPane
    \/ D_Dob
    \/ D_Address
    \/ D_Location
    \/ D_Charges
    \/ D_Finish
    \/ D_Handler
    \/ D_Structure
    \/ D_Flatten

DetailSpec == DetailInit /\ [][DetailNext]_vars

\* ------------------------------------------------------------ write_to_csv
\* the key sets of the flattened records of a batch
KeySets == {{"a", "b"}, {"a", "c"}}

\* record lists a call can get: any number of records up to the rows of a
\* roster, all with the same keys
Batches ==
    UNION {[1..n -> {ks}] : n \in 0..MaxRoster, ks \in KeySets}

\* processor.py 167-173: fieldnames: the union of the keys of the batch
fieldnames(records) == UNION {records[k] : k \in 1..Len(records)}

\* variant: the header is decided on the file's existence alone
needs_header_if_absent(exists, size) == ~exists

\* processor.py 176, 182: not (output_path.exists() and st_size > 0)
needs_header(exists, size) == ~(exists /\ size > 0)

\* processor.py 178-186: what a call writes, in order: the header when it is
\* due, then one line per record
lines_to_write(exists, size, records) ==
    (IF needs_header(exists, size)
     THEN <<[kind |-> "header", keys |-> fieldnames(records)]>>
     ELSE <<>>)
        \o [k \in 1..Len(records) |-> [kind |-> "row", keys |-> records[k]]]

\* variant: the file is opened with mode 'w'
file_after_truncating(content, written) == written

\* processor.py 178: open(output_path, 'a'): what is written goes after what
\* the file holds
file_after(content, written) == content \o written

SinkInit ==
    /\ MainIdle
    /\ dbExports = DatabaseDefs
    /\ RosterIdle
    /\ DetailIdle
    /\ StructIdle
    /\ f_exists \in BOOLEAN
    /\ f_lines = <<>>
    /\ f_calls = 0
    /\ f_before = <<>>
    /\ f_batch = <<>>
    /\ f_ret = "none"

\* processor.py 135-137: if not records: return False
SinkEmptyCall ==
    /\ f_calls < MaxRuns
    /\ f_calls' = f_calls + 1
    /\ f_batch' = <<>>
    /\ f_before' = f_lines
    /\ f_ret' = "False"
    /\ UNCHANGED <<f_exists, f_lines, mainVars, structVars, rosterVars,
                   detailVars>>

\* processor.py 139-176, 191-193: an exception before the file is opened
\* (the path, the directory, the flattening): return False
SinkFailsBeforeOpen ==
    /\ f_calls < MaxRuns
    /\ \E records \in Batches \ {<<>>} : f_batch' = records
    /\ f_calls' = f_calls + 1
    /\ f_before' = f_lines
    /\ f_ret' = "False"
    /\ UNCHANGED <<f_exists, f_lines, mainVars, structVars, rosterVars,
                   detailVars>>

\* processor.py 178-193: the file is opened (and so exists); an exception
\* while writing leaves the with block, which closes the file with the lines
\* written before it; return False
SinkFailsWriting ==
    /\ f_calls < MaxRuns
    /\ \E records \in Batches \ {<<>>} :
          /\ f_batch' = records
          /\ \E n \in 0..(Len(lines_to_write(f_exists, Len(f_lines), records)) - 1) :
                f_lines' = file_after(f_lines,
                    SubSeq(lines_to_write(f_exists, Len(f_lines), records), 1, n))
    /\ f_exists' = TRUE
    /\ f_calls' = f_calls + 1
    /\ f_before' = f_lines
    /\ f_ret' = "False"
    /\ UNCHANGED <<mainVars, structVars, rosterVars, detailVars>>

\* processor.py 178-189: header if due, every row, return True
SinkWrites ==
    /\ f_calls < MaxRuns
    /\ \E records \in Batches \ {<<>>} :
          /\ f_batch' = records
          /\ f_lines' = file_after(f_lines,
                            lines_to_write(f_exists, Len(f_lines), records))
    /\ f_exists' = TRUE
    /\ f_calls' = f_calls + 1
    /\ f_before' = f_lines
    /\ f_ret' = "True"
    /\ UNCHANGED <<mainVars, structVars, rosterVars, detailVars>>

SinkNext ==
    \/ SinkEmptyCall
    \/ SinkFailsBeforeOpen
    \/ SinkFailsWriting
    \/ SinkWrites

SinkSpec == SinkInit /\ [][SinkNext]_vars

\* ---------------------------------------------------- structure_inmate_data
\* the words of an address part: "a" is a lower-case letter, "S" two capital
\* letters (a state code), "Z" five digits (a zip code)
WordAtoms == {"a", "S", "Z"}

\* up to MaxTokens words
TokenSeqs == UNION {[1..n -> WordAtoms] : n \in 0..MaxTokens}

\* words with one blank between them
RECURSIVE JoinSp(_)
JoinSp(w) ==
    IF Len(w) <= 1 THEN w
    ELSE <<Head(w), " ">> \o JoinSp(Tail(w))

\* the last part of an address: words, with or without a blank before them
LastParts == {pad \o JoinSp(w) : pad \in {<<>>, <<" ">>}, w \in TokenSeqs}

\* what separates the parts of an address: a comma or a line break
Separators == {",", "\n"}

\* an address text of one, two or three parts: "z", "y<s>z" or "x<s>y,z"
address_text(parts, x, s, y, z) ==
    CASE parts = 1 -> z
      [] parts = 2 -> y \o <<s>> \o z
      [] OTHER -> x \o <<s>> \o y \o <<",">> \o z

AddressTexts ==
    {address_text(parts, x, s, y, z) :
        parts \in 1..3, x \in Texts, y \in Texts, s \in Separators,
        z \in LastParts}

\* how the dict comes with city, state and zip: the keys absent, None, empty
\* strings (what scrape_inmate_details gives when it found none), the city
\* alone, or all three
CityStateZip == {"absent", "None", "empty", "partial", "full"}

prefilled(d, how) ==
    [d EXCEPT
        !.city = CASE how = "absent" -> Absent
                   [] how = "None" -> None
                   [] how = "empty" -> Str(<<>>)
                   [] OTHER -> Str(<<"a">>),
        !.state = CASE how = "absent" -> Absent
                    [] how = "None" -> None
                    [] how = "full" -> Str(<<"S">>)
                    [] OTHER -> Str(<<>>),
        !.zip = CASE how = "absent" -> Absent
                  [] how = "None" -> None
                  [] how = "full" -> Str(<<"Z">>)
                  [] OTHER -> Str(<<>>)]

\* the dict scrape_inmate_details returns for an address text
with_address(x) == [EmptyDict EXCEPT !.address = Str(x), !.dob = Str(<<"a">>)]

\* dicts structure_inmate_data is called with: every address text, with city,
\* state and zip empty
AddressDicts == {prefilled(with_address(x), "empty") : x \in AddressTexts}

\* address texts of each number of parts, with city, state and zip all set
PopulatedDicts ==
    {prefilled(with_address(address_text(parts, x, ",", x, z)), "full") :
        parts \in 1..3, x \in Texts, z \in LastParts}

\* and every kind of value under each key, with a short address
KindDicts ==
    {prefilled([EmptyDict EXCEPT !.address = a, !.dob = b, !.charges = c,
                                 !.scrape_timestamp_utc = ts], how) :
        a \in {Absent, None, Str(<<>>), Str(<<"a">>), Other, Untestable},
        b \in {Absent, None, Str(<<"a">>)},
        c \in {Absent, Other} \cup {List(m) : m \in 0..MaxCharges},
        ts \in {Absent, None, Str(<<"a">>)},
        how \in CityStateZip}

\* bool(v) of a value that is there and whose truth value can be taken
truthy(v) == v.kind = "other" \/ (v.kind = "str" /\ v.text # <<>>)

\* processor.py 37: address.replace("\n", ", ")
RECURSIVE replace_newlines(_)
replace_newlines(s) ==
    IF s = <<>> THEN s
    ELSE (IF Head(s) = "\n" THEN <<",", " ">> ELSE <<Head(s)>>)
            \o replace_newlines(Tail(s))

\* processor.py 38: address.split(","): the texts between the commas (one
\* text when there is no comma)
RECURSIVE split_commas(_)
split_commas(s) ==
    IF \A k \in 1..Len(s) : s[k] # ","
    THEN <<s>>
    ELSE LET k == CHOOSE i \in 1..Len(s) :
                     s[i] = "," /\ \A j \in 1..(i - 1) : s[j] # ","
         IN  <<SubSeq(s, 1, k - 1)>> \o split_commas(SubSeq(s, k + 1, Len(s)))

\* processor.py 45: str.split(): the maximal runs without whitespace
RECURSIVE split_whitespace(_)
split_whitespace(s) ==
    LET rest == lstrip(s)
    IN  IF rest = <<>> THEN <<>>
        ELSE IF \A k \in 1..Len(rest) : rest[k] # " "
        THEN <<rest>>
        ELSE LET k == CHOOSE i \in 1..Len(rest) :
                         rest[i] = " " /\ \A j \in 1..(i - 1) : rest[j] # " "
             IN  <<SubSeq(rest, 1, k - 1)>>
                    \o split_whitespace(SubSeq(rest, k + 1, Len(rest)))

\* processor.py 54: re.search(r"([^,]+),?\s+([A-Z]{2})\s+(\d{5}(?:-\d{4})?)"):
\* the places of a text without commas where group 2 can be: two capitals
\* with whitespace right before them, at least one character before that
\* whitespace, and after them whitespace followed by five digits
state_places(s) ==
    {p \in 3..Len(s) :
        /\ s[p] = "S"
        /\ s[p - 1] = " "
        /\ \E q \in (p + 2)..Len(s) :
              /\ s[q] = "Z"
              /\ \A k \in (p + 1)..(q - 1) : s[k] = " "}

city_state_zip_match(s) == state_places(s) # {}

\* group 1 is greedy: it ends one whitespace character before the last place
\* group 2 can be
group1(s) ==
    SubSeq(s, 1, (CHOOSE p \in state_places(s) :
                      \A q \in state_places(s) : q <= p) - 2)

\* variant: state_zip[1], the second token, is taken as the zip
second_token(tokens) == tokens[2]

\* processor.py 48: state_zip[-1]
last_token(tokens) == tokens[Len(tokens)]

\* processor.py 34-64: the inner try. A value that is no str has no
\* replace(): the except clause stores it as street_address
parse_address(d) ==
    IF d.address.kind # "str"
    THEN [d EXCEPT !.street_address = d.address]
    ELSE
    LET address == replace_newlines(d.address.text)
        parts == split_commas(address)
    IN  IF Len(parts) >= 3
        THEN LET state_zip == split_whitespace(strip(parts[3]))
             IN  [d EXCEPT
                    !.street_address = Str(strip(parts[1])),
                    !.city = Str(strip(parts[2])),
                    !.state = IF Len(state_zip) >= 2
                              THEN Str(state_zip[1]) ELSE @,
                    !.zip = IF Len(state_zip) >= 2
                            THEN Str(last_token(state_zip)) ELSE @]
        ELSE IF Len(parts) = 2
        THEN LET location == strip(parts[2])
             IN  IF city_state_zip_match(location)
                 THEN [d EXCEPT
                        !.street_address = Str(strip(parts[1])),
                        !.city = Str(strip(group1(location))),
                        !.state = Str(<<"S">>),
                        !.zip = Str(<<"Z">>)]
                 ELSE [d EXCEPT !.street_address = Str(strip(parts[1]))]
        ELSE [d EXCEPT !.street_address = Str(address)]

\* processor.py 29, 33: the address is there and true, and city, state and
\* zip are not all three there and true
parses_address(d) ==
    /\ truthy(d.address)
    /\ ~(truthy(d.city) /\ truthy(d.state) /\ truthy(d.zip))

\* processor.py 28-64
address_block(d) == IF parses_address(d) THEN parse_address(d) ELSE d

\* processor.py 66-70: len(charges) of a list, else 0
count_charges(d) ==
    [d EXCEPT !.number_of_charges =
        IF d.charges.kind = "list" THEN Num(d.charges.n) ELSE Num(0)]

\* processor.py 72-74: the timestamp of now, when the key is not there
add_timestamp(d) ==
    [d EXCEPT !.scrape_timestamp_utc = IF @ = Absent THEN Str(<<"a">>) ELSE @]

\* processor.py 77-80
required_fields ==
    {"dob", "street_address", "city", "state", "zip", "number_of_charges",
     "scrape_timestamp_utc"}

\* processor.py 82-84: "" for a required key that is not there or is None
default_required(d) ==
    [k \in DictKeys |->
        IF k \in required_fields /\ d[k] \in {Absent, None}
        THEN Str(<<>>) ELSE d[k]]

\* processor.py 29: "if ... and structured_data["address"]" takes the truth
\* value of the address; with city, state and zip values whose truth value
\* can be taken (the inputs drawn here), that is the one statement of the
\* outer try, outside the inner one, that can raise
body_raises(d) == d.address.kind = "untestable"

\* variant: no outer except clause, the exception leaves the function
on_internal_error_raise(d) == [raised |-> TRUE, data |-> d]

\* processor.py 88-91: except Exception: log, return detail_data
on_internal_error(d) == [raised |-> FALSE, data |-> d]

\* processor.py 14-91
structure_inmate_data(d) ==
    IF body_raises(d)
    THEN on_internal_error(d)
    ELSE [raised |-> FALSE,
          data |-> default_required(add_timestamp(count_charges(address_block(d))))]

StructInit ==
    /\ MainIdle
    /\ dbExports = DatabaseDefs
    /\ RosterIdle
    /\ DetailIdle
    /\ SinkIdle
    /\ \/ n_detail_data \in AddressDicts
       \/ n_detail_data \in PopulatedDicts
       \/ n_detail_data \in KindDicts
    /\ n_result = n_detail_data
    /\ n_raised = FALSE
    /\ n_pc = "call"

\* processor.py 25-91: structured_data = detail_data.copy(), the body, return
N_Structure ==
    /\ n_pc = "call"
    /\ LET returned == structure_inmate_data(n_detail_data)
       IN  n_result' = returned.data /\ n_raised' = returned.raised
    /\ n_pc' = "returned"
    /\ UNCHANGED <<n_detail_data, mainVars, rosterVars, detailVars, sinkVars>>

StructNext == N_Structure

StructSpec == StructInit /\ [][StructNext]_vars

\* ------------------------------------------------------------ termination
\* a run of run_hourly_scrape and a call of scrape_inmate_details, each taken
\* from its start to its end, under the assumption that every external call
\* returns or times out: the step that is enabled is eventually taken
RunStep == DetailIdle /\ Next

\* (the call on its own, started as in DetailInit)
CallStep == pc = "idle" /\ dbExports = DatabaseDefs /\ DetailNext

TermNext == RunStep \/ CallStep

TermSpec == Init /\ [][TermNext]_vars /\ WF_vars(TermNext)

\* ---------------------------------------------------------------- claims
\* the run has left the for loop over the roster rows
AfterLoop == pc \in {"update", "release", "close", "done"} /\ abortCause = "none"

\* the run went through reconciliation to its end
Reconciled == pc = "done" /\ abortCause = "none"

\* a timestamp read by the current run
ThisRun(ts) == ts > now(runs, 0)

Count(seq, x) == Cardinality({k \in 1..Len(seq) : seq[k] = x})

\* C1: once date_released is set for an identifier, no step of any run changes
\* it or clears it, whether the roster of that run lists the identifier or not.
C1_ReleasedNeverChanges ==
    [][\A i \in DOMAIN store :
          store[i].released # NULL =>
            /\ i \in DOMAIN store'
            /\ store'[i].released = store[i].released]_vars

\* an identifier released by an earlier run is on the roster of a later run
\* that went through update_last_seen and find_released_inmates
C1_Witness ==
    /\ Reconciled
    /\ ~storeErr
    /\ \E i \in name_numbers_on_roster :
          /\ i \in DOMAIN store
          /\ store[i].released # NULL
          /\ ~ThisRun(store[i].released)

\* C2: when the previous run read the roster identifier set C and the current
\* run reads the same set C (no store operation failing in either), the
\* current run has no new identifier (no detail extraction, no record, no
\* output line, new_count = 0) and find_released_inmates returns nothing.
C2_SecondRunIdempotent ==
    ( /\ prevRun.clean
      /\ rosterOutcome = "ok"
      /\ ~storeErr
      /\ prevRun.ids = name_numbers_on_roster )
    => /\ new_count = 0
       /\ detailCalls = <<>>
       /\ new_inmate_records = <<>>
       /\ csvAppended = <<>>
       /\ released_inmates = {}

\* two consecutive complete runs over the same non-empty roster set
C2_Witness ==
    /\ Reconciled
    /\ prevRun.clean
    /\ ~storeErr
    /\ prevRun.ids = name_numbers_on_roster
    /\ name_numbers_on_roster # {}

\* C3 as stated: the identifiers sent to the detail pass are exactly the roster
\* identifiers minus the stored identifiers whose date_released is NULL (the
\* store having been read without error).
C3_Original ==
    (AfterLoop /\ loadOk) =>
        ToSet(detailCalls) = name_numbers_on_roster \ activeAtStart

\* C3 amended: the identifiers sent to the detail pass are exactly the roster
\* identifiers that are not in the set load_processed_ids returned; that set is
\* every stored identifier, released or not, when the read succeeds, and empty
\* when it fails. The roster identifiers in that set are the continuing ones.
C3_NewIsRosterMinusLoaded ==
    AfterLoop =>
        /\ ToSet(detailCalls) = name_numbers_on_roster \ processed_ids
        /\ loadOk => processed_ids = storedAtStart
        /\ ~loadOk => processed_ids = {}

\* a roster identifier that is stored with date_released set is not sent to
\* the detail pass
C3_Witness ==
    /\ AfterLoop
    /\ loadOk
    /\ \E i \in name_numbers_on_roster :
          /\ i \in storedAtStart \ activeAtStart
          /\ i \notin ToSet(detailCalls)

\* C4 as stated: after a run that read the roster identifier set C (empty or
\* not) with no store operation failing, every identifier that was stored
\* active before the run and is not in C has date_released set.
C4_Original ==
    (pc = "done" /\ rosterOutcome = "ok" /\ ~storeErr) =>
        \A i \in activeAtStart \ name_numbers_on_roster :
            store[i].released # NULL

\* C4 amended: after a run that read a non-empty roster identifier set C with
\* no store operation failing (and no exception ending it before
\* reconciliation), every identifier stored active before the run
\* and not in C has date_released set by that run; no identifier in C has
\* date_released set by that run; and a run whose roster is empty returns
\* before reconciliation and sets no date_released at all.
C4_ReleasedIsActiveMinusRoster ==
    (pc = "done" /\ rosterOutcome = "ok") =>
        /\ (name_numbers_on_roster # {} /\ ~storeErr /\ abortCause = "none") =>
              \A i \in activeAtStart \ name_numbers_on_roster :
                  ThisRun(store[i].released)
        /\ \A i \in name_numbers_on_roster \cap DOMAIN store :
              ~ThisRun(store[i].released)
        /\ name_numbers_on_roster = {} =>
              \A i \in DOMAIN store : ~ThisRun(store[i].released)

\* an identifier stored active and missing from a non-empty roster
C4_Witness ==
    /\ Reconciled
    /\ ~storeErr
    /\ activeAtStart \ name_numbers_on_roster # {}

\* C5 as stated: for every identifier classified new in a run, once the run
\* has gone through mark_inmate_processed, update_last_seen and
\* find_released_inmates (none failing), the store holds its record and the
\* record has first_seen_timestamp = last_seen_timestamp.
C5_Claim ==
    (Reconciled /\ ~storeErr) =>
        \A i \in ToSet(detailCalls) :
            /\ i \in DOMAIN store
            /\ store[i].first = store[i].last

\* C6: the set of identifiers that have a row in the store never shrinks,
\* whatever fails in a run.
C6_StoredNeverShrinks == [][DOMAIN store \subseteq DOMAIN store']_vars

\* a released row is still there at the end of a later run in which a store
\* operation failed
C6_Witness ==
    /\ pc = "done"
    /\ storeErr
    /\ \E i \in DOMAIN store :
          store[i].released # NULL /\ ~ThisRun(store[i].released)

\* C7 as stated: an identifier stored when the run starts is never passed to
\* scrape_inmate_details and gives no record for the output in that run, also
\* in a run whose store read or store write fails.
C7_Claim ==
    /\ ToSet(detailCalls) \cap storedAtStart = {}
    /\ ToSet(new_inmate_records) \cap storedAtStart = {}

\* C8 as stated: within one run an identifier gets at most one detail
\* extraction and at most one record in the batch, whatever the roster holds.
C8_Claim ==
    \A i \in Ids :
        /\ Count(detailCalls, i) <= 1
        /\ Count(new_inmate_records, i) <= 1

\* C9: the step that follows a scrape_inmate_details call returning None adds
\* no record to the batch, inserts the identifier into the store unless that
\* write itself fails, and leaves the run in the for loop at the next row.
C9_NoneStillMarked ==
    [][(pc = "mark" /\ details = "None") =>
          /\ new_inmate_records' = new_inmate_records
          /\ (inmates[idx] \in DOMAIN store' \/ faults' > faults)
          /\ pc' = "loop"
          /\ idx' = idx + 1
          /\ inmates' = inmates]_vars

\* an identifier whose details were None was inserted in this run and a
\* roster row is still to be processed
C9_Witness ==
    /\ pc = "loop"
    /\ details = "None"
    /\ idx > 1
    /\ idx <= Len(inmates)
    /\ inmates[idx - 1] \in DOMAIN store \ storedAtStart
    /\ inmates[idx - 1] \notin ToSet(new_inmate_records)

\* C10 as stated (first half): a run whose roster navigation exhausted its
\* retries, or whose listing table was not found, ends with a non-zero exit
\* status.
C10_Claim ==
    (pc = "done" /\ rosterOutcome \in {"nav_timeout", "list_not_found"}) =>
        exitStatus # 0

\* C11: a run whose validate_config raised ends before initialize_database is
\* called, before the browser is started and before any navigation; the store
\* and the output file are as they were when the run started, and the process
\* ends with a non-zero status.
C11_ConfigErrorBeforeAnything ==
    abortCause = "config" =>
        /\ pc \in {"fatal", "done"}
        /\ ~dbInitialized
        /\ ~loadOk
        /\ browser = "none"
        /\ retry_count = 0
        /\ rosterOutcome = "none"
        /\ store = storeAtStart
        /\ csvAppended = <<>>
        /\ pc = "done" => exitStatus # 0

\* a run over a non-empty store ended on a configuration error
C11_Witness ==
    /\ pc = "done"
    /\ abortCause = "config"
    /\ store # <<>>

\* C12 as stated: an identifier whose details were extracted in this run is
\* not inserted into the store before the write_to_csv call that appends its
\* row.
C12_Claim ==
    \A i \in ToSet(new_inmate_records) :
        i \in DOMAIN store \ storedAtStart => i \in ToSet(csvAppended)

\* C13: scrape_main_roster calls page.goto at most NavMaxRetries times in a
\* run; an attempt that returns ends the loop (the attempts are the timeouts
\* before it plus one); every timeout but the last is followed by one sleep of
\* NavRetryDelay seconds; and the timeout that is attempt NavMaxRetries ends
\* the roster stage with no rows, with no sleep and no further attempt.
C13_NavigationBounded ==
    /\ navAttempts <= NavMaxRetries
    /\ pc = "nav" =>
          /\ navAttempts = retry_count
          /\ navSlept = NavRetryDelay * retry_count
          /\ rosterOutcome = "none"
    /\ (browser # "none" /\ pc \notin {"nav", "fatal"} /\ rosterOutcome # "nav_timeout") =>
          /\ navAttempts = retry_count + 1
          /\ navSlept = NavRetryDelay * (navAttempts - 1)
    /\ rosterOutcome = "nav_timeout" =>
          /\ navAttempts = NavMaxRetries
          /\ navSlept = NavRetryDelay * (NavMaxRetries - 1)
          /\ inmates = <<>>
          /\ pc \in {"check", "close", "done"}

\* the roster page loaded on the last attempt allowed, after two timeouts
C13_Witness ==
    /\ pc = "table"
    /\ navAttempts = NavMaxRetries
    /\ navSlept > 0

\* positions of the non-blank characters of a text
NonBlankAt(s) == {k \in 1..Len(s) : s[k] # " "}

\* a text from its first to its last non-blank character
Core(s) ==
    IF NonBlankAt(s) = {} THEN <<>>
    ELSE SubSeq(s, CHOOSE k \in NonBlankAt(s) : \A j \in NonBlankAt(s) : k <= j,
                   CHOOSE k \in NonBlankAt(s) : \A j \in NonBlankAt(s) : j <= k)

\* rows of a table whose identifier cell was read and holds a non-blank character
Identified(page) ==
    {k \in 1..Len(page) :
        page[k].kind = "text" /\ NonBlankAt(page[k].text) # {}}

\* C15: when the row loop of scrape_main_roster has gone over the first n rows
\* of a table, its list holds no empty identifier and is exactly the
\* identifiers of the rows among them whose cell was read and is neither empty
\* nor whitespace-only, without the surrounding whitespace, in page order.
C15_BlankRowsSkipped ==
    /\ \A k \in 1..Len(r_inmates) : r_inmates[k] # <<>>
    /\ \E f \in [1..Len(r_inmates) -> 1..Len(r_page)] :
          /\ \A j, k \in 1..Len(r_inmates) : j < k => f[j] < f[k]
          /\ {f[k] : k \in 1..Len(r_inmates)} =
                {k \in Identified(r_page) : k < r_idx}
          /\ \A k \in 1..Len(r_inmates) : r_inmates[k] = Core(r_page[f[k]].text)

\* a table gone over whose first row has a whitespace-only cell and whose
\* second row has an identifier with a blank before it
C15_Witness ==
    /\ r_idx > Len(r_page)
    /\ Len(r_page) = 2
    /\ r_page[1] = [kind |-> "text", text |-> <<" ">>]
    /\ r_page[2] = [kind |-> "text", text |-> <<" ", "a">>]
    /\ r_inmates = << <<"a">> >>

\* C14: a call of scrape_inmate_details never ends with an exception, and a
\* call in which the row lookup, both clicks, the wait for the detail pane or
\* the extraction block failed (whether or not the screenshot taken then
\* failed too) returns None.
C14_DetailsNeverRaise ==
    /\ d_result \in {"running", "dict", "None"}
    /\ d_pc = "returned" => d_result \in {"dict", "None"}
    /\ (d_pc = "returned" /\ d_fatal # "none") => d_result = "None"
    /\ d_result = "dict" => d_fatal = "none"

\* the call returned None after the click on the row failed on every attempt
\* and the click inside the row failed too
C14_Witness ==
    /\ d_pc = "returned"
    /\ d_fatal = "clicks"
    /\ d_retry > ClickMaxRetries
    /\ d_result = "None"

\* C16 as stated: in the dict scrape_inmate_details returns, every field among
\* dob, address, location and charges whose extraction failed is named in
\* missing_fields and has its empty default.
C16_Claim ==
    d_result = "dict" =>
        \A f \in d_failed :
            /\ \E k \in 1..Len(d_missing) : d_missing[k] = f
            /\ f \in {"dob", "address"} => d_vals[f] = ""
            /\ f = "location" => d_vals["city"] = "" /\ d_vals["state"] = "" /\ d_vals["zip"] = ""
            /\ f = "charges" => d_charges = 0

\* C17 as stated: the flattened record of an inmate whose detail view lists
\* more than CsvChargeCap charges has CsvChargeCap sets of chargeN_* columns
\* and number_of_charges equal to the number listed.
C17_Claim ==
    (d_pc = "flattened" /\ d_charges > 0 /\ d_listed > CsvChargeCap) =>
        /\ d_cols = CsvChargeCap
        /\ d_number = d_listed

\* the lines the last write_to_csv call added to the file
LastWritten == SubSeq(f_lines, Len(f_before) + 1, Len(f_lines))

Headers(lines) == {k \in 1..Len(lines) : lines[k].kind = "header"}

\* C18 as stated: a call writes a header line if and only if the file was
\* absent or zero-length when the call started.
C18_Original ==
    f_calls > 0 =>
        (Headers(LastWritten) # {} <=> f_before = <<>>)

\* C18 amended: a call writes a header line if and only if the file was
\* absent or zero-length when the call started and the call writes at all;
\* the header is then the first line it writes and carries the keys of its
\* batch. So the file holds at most one header line, and it is its first
\* line, whatever the keys of later batches.
C18_HeaderOnlyOnEmptyFile ==
    /\ f_calls > 0 =>
          /\ Headers(LastWritten) # {} <=> (f_before = <<>> /\ LastWritten # <<>>)
          /\ Headers(LastWritten) \subseteq {1}
          /\ Headers(LastWritten) # {} => LastWritten[1].keys = fieldnames(f_batch)
    /\ Cardinality(Headers(f_lines)) <= 1
    /\ f_lines # <<>> => Headers(f_lines) = {1}

\* a batch with other keys than the header was appended to a file that had
\* lines already
C18_Witness ==
    /\ f_ret = "True"
    /\ f_before # <<>>
    /\ f_lines[1].keys # fieldnames(f_batch)

\* C19: what the file holds before a write_to_csv call is a prefix of what it
\* holds after it, whether the call returns True, fails, or gets no records.
C19_AppendOnly ==
    [][/\ Len(f_lines) <= Len(f_lines')
       /\ SubSeq(f_lines', 1, Len(f_lines)) = f_lines]_vars

\* a call that failed while writing added lines to a file that had some
C19_Witness ==
    /\ f_ret = "False"
    /\ f_before # <<>>
    /\ Len(f_lines) > Len(f_before)

\* C20 as stated: after a call that returned False the file holds no line of
\* that call, and after a call that returned True it holds a line for every
\* record of the batch.
C20_Claim ==
    /\ f_ret = "False" => LastWritten = <<>>
    /\ f_ret = "True" =>
          /\ Len(LastWritten) >= Len(f_batch)
          /\ SubSeq(LastWritten, Len(LastWritten) - Len(f_batch) + 1, Len(LastWritten))
                = [k \in 1..Len(f_batch) |-> [kind |-> "row", keys |-> f_batch[k]]]

\* C24: the step of load_processed_ids in which the read of the store fails
\* for good returns the empty set, changes no stored row and leaves the run
\* going: the next statement is initialize_browser, not the handler of
\* run_hourly_scrape; and a run that went on from there to the end of the row
\* loop has sent every roster identifier to the detail pass, stored or not.
C24_LoadFailureDegrades ==
    [][/\ (pc = "load" /\ storeErr' /\ ~storeErr) =>
             /\ processed_ids' = {}
             /\ pc' = "browser"
             /\ abortCause' = "none"
             /\ store' = store
       /\ (AfterLoop /\ ~loadOk) =>
             ToSet(detailCalls) = name_numbers_on_roster]_vars

\* a run whose read of a non-empty store failed went through the detail pass
\* for a stored identifier, the output append and reconciliation
C24_Witness ==
    /\ Reconciled
    /\ ~loadOk
    /\ storeErr
    /\ ToSet(detailCalls) \cap storedAtStart # {}
    /\ csvAppended # <<>>

\* C25 as stated: a run in which nothing failed (valid configuration, working
\* store, a browser that starts) resolves every name of the database import
\* and ends only after initialize_browser and scrape_main_roster were called.
C25_Claim ==
    (pc = "done" /\ faults = 0) =>
        /\ import_resolves(dbExports)
        /\ abortCause # "import"
        /\ browser # "none"
        /\ rosterOutcome # "none"

\* C27: close_browser is called at most once in a run; a run that ended, or
\* that is in the handler of run_hourly_scrape, has called it exactly once if
\* initialize_browser returned and not at all otherwise, whether the run
\* completed, returned early on an empty roster or left the inner try by an
\* exception; and while the browser is open the run is inside the inner try
\* or at its finally clause.
C27_BrowserClosedOnce ==
    /\ closeCalls <= 1
    /\ pc \in {"done", "fatal"} =>
          \/ browser = "none" /\ closeCalls = 0
          \/ browser = "closed" /\ closeCalls = 1
    /\ browser = "open" =>
          /\ closeCalls = 0
          /\ pc \in {"nav", "table", "check", "loop", "mark", "update",
                      "release", "close"}
    /\ browser = "closed" => closeCalls = 1

\* a run that an exception took out of the row loop, after a record was
\* extracted, closed the browser once and ended with a non-zero status
C27_Witness ==
    /\ pc = "done"
    /\ abortCause = "exception"
    /\ new_inmate_records # <<>>
    /\ browser = "closed"
    /\ closeCalls = 1
    /\ exitStatus # 0

\* C26: in a run whose scrape_main_roster call returned an empty list (the
\* page did not load, the table was not found, or no row had an identifier),
\* the store is, row for row, what it was when the run started, and nothing
\* was appended to the output file; the run ends by the early return.
C26_EmptyRosterWritesNothing ==
    (rosterOutcome # "none" /\ inmates = <<>>) =>
        /\ store = storeAtStart
        /\ csvAppended = <<>>
        /\ new_inmate_records = <<>>
        /\ pc \in {"check", "close", "done"}
        /\ pc # "check" => abortCause = "no_inmates"

\* a run over a store with unreleased identifiers read a roster without any
\* identifier and ended
C26_Witness ==
    /\ pc = "done"
    /\ rosterOutcome = "ok"
    /\ inmates = <<>>
    /\ activeAtStart # {}
    /\ Active(store) = activeAtStart

\* C29: no step of any run changes the first_seen_timestamp of a stored
\* identifier, also the mark_inmate_processed call for an identifier that is
\* stored already (classified new again after a failed read of the store, or
\* listed twice on the roster).
C29_FirstSeenNeverChanges ==
    [][\A i \in DOMAIN store :
          /\ i \in DOMAIN store'
          /\ store'[i].first = store[i].first]_vars

\* after a failed read of the store (the one failure of the behaviour),
\* mark_inmate_processed was called for an identifier that an earlier run
\* stored, and the row still has the earlier timestamp
C29_Witness ==
    /\ pc = "loop"
    /\ idx > 1
    /\ ~loadOk
    /\ faults = 1
    /\ inmates[idx - 1] \in storedAtStart
    /\ inmates[idx - 1] \in ToSet(detailCalls)
    /\ ~ThisRun(store[inmates[idx - 1]].first)

\* C30 as stated: a stored row whose date_released is set has
\* last_seen_timestamp not later than date_released.
C30_Claim ==
    \A i \in DOMAIN store :
        store[i].released # NULL => store[i].last <= store[i].released

\* the parts of the address the call was given: its text with the line breaks
\* turned into commas, cut at the commas
InputParts == split_commas(replace_newlines(n_detail_data.address.text))

\* city, state and zip all came with a true value
InputPopulated ==
    /\ truthy(n_detail_data.city)
    /\ truthy(n_detail_data.state)
    /\ truthy(n_detail_data.zip)

\* C21 as stated: the call does not raise, and the dict it returns has every
\* required key, none of them None, with number_of_charges 0 when charges is
\* absent or not a list.
C21_Original ==
    n_pc = "returned" =>
        /\ ~n_raised
        /\ \A k \in required_fields : n_result[k] \notin {Absent, None}
        /\ n_detail_data.charges.kind # "list" =>
              n_result.number_of_charges = Num(0)

\* C21 amended: the call does not raise. When the truth value of the address
\* cannot be taken, the outer except clause returns the input dict as it
\* came, whatever keys it lacks. Otherwise the dict returned has every
\* required key, none of them None: a required key that was absent or None
\* and that the address did not fill is the empty string, and
\* number_of_charges is the length of charges when that is a list and 0 when
\* it is absent or not a list.
C21_RequiredUnlessInternalError ==
    n_pc = "returned" =>
        /\ ~n_raised
        /\ n_detail_data.address = Untestable => n_result = n_detail_data
        /\ n_detail_data.address # Untestable =>
              /\ \A k \in required_fields : n_result[k] \notin {Absent, None}
              /\ n_detail_data.dob \in {Absent, None} => n_result.dob = Str(<<>>)
              /\ n_detail_data.dob \notin {Absent, None} =>
                    n_result.dob = n_detail_data.dob
              /\ n_result.number_of_charges =
                    IF n_detail_data.charges.kind = "list"
                    THEN Num(n_detail_data.charges.n) ELSE Num(0)
              /\ n_result.address = n_detail_data.address
              /\ n_result.charges = n_detail_data.charges

\* a dict whose dob is None, whose charges is no list and whose city, state
\* and zip keys are missing came back with all of them set
C21_Witness ==
    /\ n_pc = "returned"
    /\ n_detail_data.dob = None
    /\ n_detail_data.charges = Other
    /\ n_detail_data.city = Absent
    /\ n_detail_data.scrape_timestamp_utc = None
    /\ n_result.dob = Str(<<>>)
    /\ n_result.city = Str(<<>>)
    /\ n_result.scrape_timestamp_utc = Str(<<>>)
    /\ n_result.number_of_charges = Num(0)

\* C22 as stated: for an address of exactly two parts, neither of them blank,
\* whose second part does not match the city/state/zip pattern (city, state
\* and zip having come empty), street_address is the whole address and city,
\* state and zip are empty.
C22_Claim ==
    ( /\ n_pc = "returned"
      /\ n_detail_data.address.kind = "str"
      /\ \A k \in {"city", "state", "zip"} : n_detail_data[k] = Str(<<>>)
      /\ Len(InputParts) = 2
      /\ Core(InputParts[1]) # <<>>
      /\ Core(InputParts[2]) # <<>>
      /\ ~city_state_zip_match(Core(InputParts[2])) )
    => /\ n_result.street_address \in
            {n_detail_data.address,
             Str(replace_newlines(n_detail_data.address.text))}
       /\ \A k \in {"city", "state", "zip"} : n_result[k] = Str(<<>>)

\* what the three-part rule gives: the first part and the second without the
\* whitespace around them, the first and the last word of the third
ThreePartResult ==
    LET words == split_whitespace(InputParts[3])
    IN  /\ n_result.street_address = Str(Core(InputParts[1]))
        /\ n_result.city = Str(Core(InputParts[2]))
        /\ n_result.state = Str(words[1])
        /\ n_result.zip = Str(words[Len(words)])

\* an address of three parts whose last part has two words or more
ThreeParts ==
    /\ n_pc = "returned"
    /\ n_detail_data.address.kind = "str"
    /\ Len(InputParts) = 3
    /\ Len(split_whitespace(InputParts[3])) >= 2

\* C23 as stated: for an address of three parts whose last part has at least
\* two words, street_address is the trimmed first part, city the trimmed
\* second part, state the first word of the last part and zip its last word.
C23_Original == ThreeParts => ThreePartResult

\* C23 amended: that holds when city, state and zip did not all three come
\* with a value; when they did, the address is not looked at: city, state
\* and zip stay as they came and street_address is what it was (the empty
\* string when the key was missing).
C23_ThreePartSplit ==
    ThreeParts =>
        IF InputPopulated
        THEN /\ \A k \in {"city", "state", "zip"} :
                    n_result[k] = n_detail_data[k]
             /\ n_result.street_address = Str(<<>>)
        ELSE ThreePartResult

\* "a, a, S a Z" came back as street a, city a, state S, zip Z
C23_Witness ==
    /\ n_pc = "returned"
    /\ n_detail_data.address.text =
          <<"a", ",", " ", "a", ",", " ", "S", " ", "a", " ", "Z">>
    /\ ~InputPopulated
    /\ n_result.street_address = Str(<<"a">>)
    /\ n_result.city = Str(<<"a">>)
    /\ n_result.state = Str(<<"S">>)
    /\ n_result.zip = Str(<<"Z">>)

\* the counters of the retry loops stay within their limits: the store read
\* is tried while retry_count <= LoadMaxRetries, page.goto at most
\* NavMaxRetries times, the click on the row while retry_count <=
\* ClickMaxRetries, the click inside the row after that only, and the wait
\* for the detail pane once per entry of the selector list
LoopsBounded ==
    /\ pc = "load" => retry_count + 1 <= LoadMaxRetries + 1
    /\ navAttempts <= NavMaxRetries
    /\ pc = "nav" => retry_count < NavMaxRetries
    /\ d_retry <= ClickMaxRetries + 1
    /\ d_pc = "click" => d_retry + 1 <= ClickMaxRetries + 1
    /\ d_pc = "altclick" => d_retry = ClickMaxRetries + 1
    /\ d_sel <= PaneSelectors

\* the statements of run_hourly_scrape in the order control reaches them
RunStages ==
    <<"idle", "validate", "import", "initdb", "load", "browser", "nav",
      "table", "check", "loop", "update", "release", "close", "fatal", "done">>

\* the statements of scrape_inmate_details, and of what main.py does with its
\* result, in the order control reaches them
CallStages ==
    <<"row", "click", "altclick", "pane", "dob", "address", "location",
      "charges", "finish", "handler", "returned", "structured", "flattened">>

StageOf(stages) == [p \in {stages[k] : k \in 1..Len(stages)} |->
                        CHOOSE k \in 1..Len(stages) : stages[k] = p]

RunStage == StageOf(RunStages)

CallStage == StageOf(CallStages)

\* how far a run has come: the statement it is at and, inside a loop, the
\* turn of the loop (retry_count in the two retry loops, the row index in
\* the loop over the roster, "mark" being the second half of a turn)
RunTurns == 2 * MaxRoster + 4

RunProgress ==
    IF pc = "mark"
    THEN RunStage["loop"] * RunTurns + 2 * idx + 1
    ELSE RunStage[pc] * RunTurns
            + (IF pc \in {"load", "nav"} THEN retry_count
               ELSE IF pc = "loop" THEN 2 * idx ELSE 0)

\* how far a call has come: the statement it is at and the turns of the
\* click loop and of the loop over the detail selectors taken so far
CallTurns == ClickMaxRetries + PaneSelectors + 2

CallProgress == CallStage[d_pc] * CallTurns + d_retry + d_sel

\* the run is over: returned or exited
RunOver == pc = "done"

\* scrape_inmate_details has returned: None, which main.py skips, or a dict
\* that was passed on
CallOver ==
    \/ d_pc = "returned" /\ d_result = "None"
    \/ d_pc = "flattened"

\* C28: when every external call returns or times out, every run comes to
\* its end, and so does every call of scrape_inmate_details: each step taken
\* by a run (by a call) brings it further, how far it can come is limited,
\* and where no step is left the run (the call) is over. The store read is
\* tried at most LoadMaxRetries + 1 = 3 times, page.goto at most
\* NavMaxRetries = 3 times, the click on the row at most ClickMaxRetries + 1
\* = 3 times and the click inside the row at most once after that, and the
\* wait for the detail pane at most once per selector.
C28_EveryRunTerminates ==
    /\ [](LoopsBounded)
    /\ [][d_pc = "altclick" => d_pc' # "altclick"]_vars
    /\ [][pc' # "validate" => RunProgress' > RunProgress
                               \/ CallProgress' > CallProgress]_vars
    /\ [](RunProgress <= (Len(RunStages) + 1) * RunTurns)
    /\ [](CallProgress <= (Len(CallStages) + 1) * CallTurns)
    /\ [](RunOver \/ CallOver \/ ENABLED TermNext)

\* a run came to its end after page.goto timed out NavMaxRetries times
C28_Witness ==
    /\ RunOver
    /\ runs >= 1
    /\ navAttempts = NavMaxRetries
    /\ rosterOutcome = "nav_timeout"
    /\ browser = "closed"

====
